---------------------------- MODULE Spec2Model ----------------------------
(***************************************************************************)
(* The two to-do list stores of the repository.                            *)
(*                                                                         *)
(*   index variant  src/TODO_App/TODO_App/TODO_App.py  (TodoState with     *)
(*                  todos, new_todo, filter_status; rows are referenced by *)
(*                  their position)                                        *)
(*   keyed variant  src/TODO_App/todo_app.py  (TodoState with tasks,       *)
(*                  new_task_description; rows are referenced by their     *)
(*                  (description, created_at) pair)                        *)
(*                                                                         *)
(* A session runs one of the two programs; variant says which.  A Python   *)
(* str is a sequence of one-character strings, so that str.strip() is      *)
(* computed and not assumed.  List positions are 1-based here and 0-based  *)
(* in the source: an index argument i names position i + 1.                *)
(***************************************************************************)
EXTENDS Integers, Sequences, FiniteSets, TLC

\* ------------------------------------------------------------- bounds
\* The handlers of the source put no limit on the list; the model stops
\* adding at MaxTasks entries.
MaxTasks == 2
\* The wall clock, in seconds since the session started, stops at MaxClock.
MaxClock == 60

\* "%Y-%m-%d %H:%M" keeps the minute and drops the seconds.
SecondsPerMinute == 60
\* The clock is observed twice a minute.
TickSeconds == SecondsPerMinute \div 2

\* ------------------------------------------------------------- inputs
Whitespace == {" "}
\* What the user may have typed in the entry field.
Inputs == { <<>>, <<" ">>, <<"a">>, <<" ", "a", " ">>, <<"b">> }
\* What a client may send as the filter.
FilterInputs == {"all", "active", "completed", "bogus"}
\* What a client may send as an index.
Indices == (0 - (MaxTasks + 1)) .. (MaxTasks + 1)
Minutes == 0 .. (MaxClock \div SecondsPerMinute)
\* What a client may send as the task of toggle_complete / delete_task.
Keys == [description : Inputs, created_at : Minutes]

VARIABLES
    variant,               \* "index" or "keyed": the program that is running
    todos,                 \* index variant: list of [text, completed]
    new_todo,              \* index variant: the entry field
    filter_status,         \* index variant: the filter, any str
    view,                  \* index variant: filtered_todos as last rendered
    tasks,                 \* keyed variant: list of [description, completed, created_at]
    new_task_description,  \* keyed variant: the entry field
    now,                   \* the wall clock, in seconds
    op,                    \* the last call: its name, argument, whether it raised,
                           \*   whether it was fired from a displayed row,
                           \*   whether the call before it was the same call
    pre                    \* the task list as it was before the last call

vars == << variant, todos, new_todo, filter_status, view, tasks,
           new_task_description, now, op, pre >>

\* ------------------------------------------------------------- str.strip
RECURSIVE lstrip(_)
lstrip(s) ==
    IF s # <<>> /\ Head(s) \in Whitespace THEN lstrip(Tail(s)) ELSE s

RECURSIVE rstrip(_)
rstrip(s) ==
    IF s # <<>> /\ s[Len(s)] \in Whitespace
    THEN rstrip(SubSeq(s, 1, Len(s) - 1))
    ELSE s

strip_identity(s) == s

strip(s) == rstrip(lstrip(s))

\* ------------------------------------------------------------- list access
\* Position named by a Python index into a list of n entries; 0 when the
\* access raises IndexError.  Negative indices count from the end.
PyIndex(n, index) ==
    IF 0 <= index /\ index < n THEN index + 1
    ELSE IF 0 - n <= index /\ index < 0 THEN n + index + 1
    ELSE 0

pop_last(l, p) == SubSeq(l, 1, Len(l) - 1)

\* list.pop at an existing position
pop(l, p) == SubSeq(l, 1, p - 1) \o SubSeq(l, p + 1, Len(l))

set_completed(l, p) == [l EXCEPT ![p].completed = TRUE]

\* l[p]["completed"] = not l[p]["completed"]
flip(l, p) == [l EXCEPT ![p].completed = ~ l[p].completed]

\* datetime.now().strftime("%Y-%m-%d %H:%M"): the minute the clock is in
strftime(t) == t \div SecondsPerMinute

\* ------------------------------------------------------------- index variant
RECURSIVE not_completed_first_only(_)
not_completed_first_only(l) ==
    IF l = <<>> THEN <<>>
    ELSE IF Head(l).completed THEN Tail(l)
    ELSE <<Head(l)>> \o not_completed_first_only(Tail(l))

\* [todo for todo in l if not todo["completed"]]
RECURSIVE not_completed(_)
not_completed(l) ==
    IF l = <<>> THEN <<>>
    ELSE IF ~ Head(l).completed THEN <<Head(l)>> \o not_completed(Tail(l))
    ELSE not_completed(Tail(l))

\* [todo for todo in l if todo["completed"]]
RECURSIVE only_completed(_)
only_completed(l) ==
    IF l = <<>> THEN <<>>
    ELSE IF Head(l).completed THEN <<Head(l)>> \o only_completed(Tail(l))
    ELSE only_completed(Tail(l))

filtered_todos_swapped(l, status) ==
    IF status = "active" THEN only_completed(l)
    ELSE IF status = "completed" THEN not_completed(l)
    ELSE l

\* the computed var filtered_todos
filtered_todos(l, status) ==
    IF status = "active" THEN not_completed(l)
    ELSE IF status = "completed" THEN only_completed(l)
    ELSE l

validated_status(status) ==
    IF status \in {"all", "active", "completed"} THEN status ELSE "all"

\* the value set_filter stores
stored_status(status) == status

Called(name, arg, raised, row, before) ==
    /\ op' = [name |-> name, arg |-> arg, raised |-> raised, row |-> row,
              again |-> (op.name = name /\ op.arg = arg)]
    /\ pre' = before

Render == view' = filtered_todos(todos', filter_status')

IndexOnly ==
    /\ variant = "index"
    /\ UNCHANGED << variant, tasks, new_task_description, now >>

set_new_todo(value) ==
    /\ IndexOnly
    /\ new_todo' = value
    /\ UNCHANGED << todos, filter_status >>
    /\ Render
    /\ Called("set_new_todo", value, FALSE, FALSE, todos)

add_todo ==
    /\ IndexOnly
    /\ IF strip(new_todo) # <<>>
       THEN /\ Len(todos) < MaxTasks
            /\ todos' = Append(todos, [text |-> new_todo, completed |-> FALSE])
            /\ new_todo' = <<>>
       ELSE UNCHANGED << todos, new_todo >>
    /\ UNCHANGED filter_status
    /\ Render
    /\ Called("add_todo", new_todo, FALSE, FALSE, todos)

toggle_todo_from(index, row) ==
    /\ IndexOnly
    /\ LET p == PyIndex(Len(todos), index) IN
         /\ IF p = 0 THEN UNCHANGED todos ELSE todos' = flip(todos, p)
         /\ UNCHANGED << new_todo, filter_status >>
         /\ Render
         /\ Called("toggle_todo", index, p = 0, row, todos)

delete_todo_from(index, row) ==
    /\ IndexOnly
    /\ LET p == PyIndex(Len(todos), index) IN
         /\ IF p = 0 THEN UNCHANGED todos ELSE todos' = pop(todos, p)
         /\ UNCHANGED << new_todo, filter_status >>
         /\ Render
         /\ Called("delete_todo", index, p = 0, row, todos)

\* a client calls the handler with an index of its choice
toggle_todo(index) == toggle_todo_from(index, FALSE)
delete_todo(index) == delete_todo_from(index, FALSE)

\* the checkbox / the Delete button of the row at position k of the
\* displayed list: rx.foreach hands todo_item the position in filtered_todos
todo_item_on_change(k) ==
    /\ k < Len(view)
    /\ toggle_todo_from(k, TRUE)

todo_item_on_click(k) ==
    /\ k < Len(view)
    /\ delete_todo_from(k, TRUE)

clear_completed ==
    /\ IndexOnly
    /\ todos' = not_completed(todos)
    /\ UNCHANGED << new_todo, filter_status >>
    /\ Render
    /\ Called("clear_completed", 0, FALSE, FALSE, todos)

set_filter(status) ==
    /\ IndexOnly
    /\ filter_status' = stored_status(status)
    /\ UNCHANGED << todos, new_todo >>
    /\ Render
    /\ Called("set_filter", status, FALSE, FALSE, todos)

\* the page reads the computed var
read_filtered_todos ==
    /\ IndexOnly
    /\ UNCHANGED << todos, new_todo, filter_status >>
    /\ Render
    /\ Called("filtered_todos", 0, FALSE, FALSE, todos)

\* ------------------------------------------------------------- keyed variant
\* task["description"] == key["description"] and task["created_at"] == key["created_at"]
Matches(task, key) ==
    task.description = key.description /\ task.created_at = key.created_at

RECURSIVE without_first_match(_, _)
without_first_match(l, key) ==
    IF l = <<>> THEN <<>>
    ELSE IF Matches(Head(l), key) THEN Tail(l)
    ELSE <<Head(l)>> \o without_first_match(Tail(l), key)

\* [task for task in l if not (task matches key)]
RECURSIVE without_matches(_, _)
without_matches(l, key) ==
    IF l = <<>> THEN <<>>
    ELSE IF ~ Matches(Head(l), key)
         THEN <<Head(l)>> \o without_matches(Tail(l), key)
         ELSE without_matches(Tail(l), key)

\* for i, task in enumerate(l): if task matches key: flip l[i]; break
RECURSIVE toggle_first_match(_, _, _)
toggle_first_match(l, key, i) ==
    IF i > Len(l) THEN l
    ELSE IF Matches(l[i], key) THEN flip(l, i)
    ELSE toggle_first_match(l, key, i + 1)

KeyedOnly ==
    /\ variant = "keyed"
    /\ UNCHANGED << variant, todos, new_todo, filter_status, view >>

set_new_task_description(value) ==
    /\ KeyedOnly
    /\ new_task_description' = value
    /\ UNCHANGED << tasks, now >>
    /\ Called("set_new_task_description", value, FALSE, FALSE, tasks)

add_task ==
    /\ KeyedOnly
    /\ IF ~ (strip(new_task_description) # <<>>)
       THEN UNCHANGED << tasks, new_task_description >>
       ELSE /\ Len(tasks) < MaxTasks
            /\ tasks' = Append(tasks,
                   [description |-> strip(new_task_description),
                    completed   |-> FALSE,
                    created_at  |-> strftime(now)])
            /\ new_task_description' = <<>>
    /\ UNCHANGED now
    /\ Called("add_task", new_task_description, FALSE, FALSE, tasks)

toggle_complete(task_to_toggle) ==
    /\ KeyedOnly
    /\ tasks' = toggle_first_match(tasks, task_to_toggle, 1)
    /\ UNCHANGED << new_task_description, now >>
    /\ Called("toggle_complete", task_to_toggle, FALSE, FALSE, tasks)

delete_task(task_to_delete) ==
    /\ KeyedOnly
    /\ tasks' = without_matches(tasks, task_to_delete)
    /\ UNCHANGED << new_task_description, now >>
    /\ Called("delete_task", task_to_delete, FALSE, FALSE, tasks)

\* time passes between two calls
Tick ==
    /\ KeyedOnly
    /\ now + TickSeconds <= MaxClock
    /\ now' = now + TickSeconds
    /\ UNCHANGED << tasks, new_task_description >>
    /\ Called("tick", 0, FALSE, FALSE, tasks)

\* ------------------------------------------------------------- specification
Init ==
    /\ variant \in {"index", "keyed"}
    /\ todos = <<>>
    /\ new_todo = <<>>
    /\ filter_status = "all"
    /\ view = <<>>
    /\ tasks = <<>>
    /\ new_task_description = <<>>
    /\ now = 0
    /\ op = [name |-> "init", arg |-> 0, raised |-> FALSE, row |-> FALSE,
             again |-> FALSE]
    /\ pre = <<>>

Next ==
    \/ \E value \in Inputs : set_new_todo(value)
    \/ add_todo
    \/ \E index \in Indices : toggle_todo(index)
    \/ \E index \in Indices : delete_todo(index)
    \/ \E k \in 0 .. MaxTasks : todo_item_on_change(k)
    \/ \E k \in 0 .. MaxTasks : todo_item_on_click(k)
    \/ clear_completed
    \/ \E status \in FilterInputs : set_filter(status)
    \/ read_filtered_todos
    \/ \E value \in Inputs : set_new_task_description(value)
    \/ add_task
    \/ \E key \in Keys : toggle_complete(key)
    \/ \E key \in Keys : delete_task(key)
    \/ Tick

Spec == Init /\ [][Next]_vars


\* ------------------------------------------------------------- vocabulary of the properties
FilterEnum == {"all", "active", "completed"}

IsBlank(s) == \A i \in 1 .. Len(s) : s[i] \in Whitespace

\* s without its leading and trailing whitespace, from the positions of its
\* first and last non-whitespace character
Trimmed(s) ==
    LET solid == {i \in 1 .. Len(s) : s[i] \notin Whitespace} IN
      IF solid = {} THEN <<>>
      ELSE SubSeq(s, CHOOSE i \in solid : \A j \in solid : i <= j,
                     CHOOSE i \in solid : \A j \in solid : j <= i)

IsActive(t) == ~ t.completed
IsCompleted(t) == t.completed

\* after is before with the completed flag of position p negated and
\* nothing else changed
OnlyFlipped(before, after, p) ==
    /\ Len(after) = Len(before)
    /\ \A j \in 1 .. Len(before) :
         after[j] = IF j = p
                    THEN [before[j] EXCEPT !.completed = ~ before[j].completed]
                    ELSE before[j]

MatchSet(l, key) == {i \in 1 .. Len(l) : Matches(l[i], key)}
FirstMatch(l, key) ==
    CHOOSE i \in MatchSet(l, key) : \A j \in MatchSet(l, key) : i <= j

\* positions of the full list that the filter shows, and the position shown
\* in row r (rows counted from 1)
Shown(l, status) ==
    {i \in 1 .. Len(l) :
        /\ status = "active" => ~ l[i].completed
        /\ status = "completed" => l[i].completed}
RowPosition(l, status, r) ==
    CHOOSE i \in Shown(l, status) :
        Cardinality({j \in Shown(l, status) : j <= i}) = r

\* ------------------------------------------------------------- C1
\* C1: in both variants, an add with an input whose trimmed form is
\* non-empty makes the list one longer, keeps every earlier task in place,
\* appends a task whose description is the trimmed input with
\* completed = FALSE, and empties the input buffer.
C1_AddAppendsTrimmed ==
    [][ /\ (op'.name = "add_todo" /\ ~ IsBlank(new_todo)) =>
              /\ todos' = Append(todos, [text |-> Trimmed(new_todo),
                                         completed |-> FALSE])
              /\ new_todo' = <<>>
        /\ (op'.name = "add_task" /\ ~ IsBlank(new_task_description)) =>
              /\ tasks' = Append(tasks,
                     [description |-> Trimmed(new_task_description),
                      completed   |-> FALSE,
                      created_at  |-> tasks'[Len(tasks')].created_at])
              /\ new_task_description' = <<>>
      ]_vars

\* ------------------------------------------------------------- C2
\* C2: in both variants, an add while the input is empty or all whitespace
\* does not raise and changes neither the task list, nor the input buffer,
\* nor the filter.
C2_BlankAddChangesNothing ==
    [][ (op'.name \in {"add_todo", "add_task"} /\ IsBlank(op'.arg)) =>
            /\ ~ op'.raised
            /\ UNCHANGED << todos, new_todo, filter_status,
                            tasks, new_task_description >>
      ]_vars

\* a whitespace-only add was just refused on a list that holds a task
C2_Witness ==
    /\ op.name = "add_task"
    /\ op.arg = <<" ">>
    /\ new_task_description = <<" ">>
    /\ Len(tasks) = 1

\* ------------------------------------------------------------- C3
\* C3: toggle and delete with a reference that names no existing task (an
\* index outside 0..len-1, or a key matching no task) do not raise and
\* leave the task list unchanged.
C3_MissingReferenceIsNoOp ==
    [][ /\ (/\ op'.name \in {"toggle_todo", "delete_todo"}
            /\ op'.arg \notin 0 .. (Len(todos) - 1)) =>
              (~ op'.raised /\ todos' = todos)
        /\ (/\ op'.name \in {"toggle_complete", "delete_task"}
            /\ MatchSet(tasks, op'.arg) = {}) =>
              (~ op'.raised /\ tasks' = tasks)
      ]_vars

\* ------------------------------------------------------------- C4
\* C4: in the index variant, delete at an index i with 0 <= i < len makes
\* the list one shorter, keeps the tasks before i where they were and moves
\* each task after i down by one position.
C4_DeleteRemovesPositionI ==
    [][ (op'.name = "delete_todo" /\ op'.arg \in 0 .. (Len(todos) - 1)) =>
            LET p == op'.arg + 1 IN
              /\ ~ op'.raised
              /\ Len(todos') = Len(todos) - 1
              /\ \A j \in 1 .. (p - 1) : todos'[j] = todos[j]
              /\ \A j \in p .. Len(todos') : todos'[j] = todos[j + 1]
      ]_vars

\* the first of two different tasks was just deleted
C4_Witness ==
    /\ op.name = "delete_todo"
    /\ op.arg = 0
    /\ Len(pre) = 2
    /\ pre[1] # pre[2]
    /\ todos = << pre[2] >>

\* ------------------------------------------------------------- C5
\* C5: in both variants, a toggle with a reference to a present task
\* negates the completed flag of the first task matching it and changes
\* nothing else in the list; a second toggle with the same reference right
\* after the first gives back the list as it was before the first.
C5_ToggleFlipsFirstMatchAndUndoes ==
    [][ /\ (op'.name = "toggle_todo" /\ op'.arg \in 0 .. (Len(todos) - 1)) =>
              /\ ~ op'.raised
              /\ OnlyFlipped(todos, todos', op'.arg + 1)
              /\ op'.again => todos' = pre
        /\ (op'.name = "toggle_complete" /\ MatchSet(tasks, op'.arg) # {}) =>
              /\ ~ op'.raised
              /\ OnlyFlipped(tasks, tasks', FirstMatch(tasks, op'.arg))
              /\ op'.again => tasks' = pre
      ]_vars

\* the second of two tasks was just toggled for the second time in a row
\* and is completed again, the first task being active
C5_Witness ==
    /\ op.name = "toggle_todo"
    /\ op.arg = 1
    /\ op.again
    /\ Len(todos) = 2
    /\ ~ todos[1].completed
    /\ todos[2].completed
    /\ pre = flip(todos, 2)

C7_FilteredIsTheSubsequence ==
    [][ /\ (filter_status' = "active" => view' = SelectSeq(todos', IsActive))
        /\ (filter_status' = "completed" =>
                view' = SelectSeq(todos', IsCompleted))
        /\ (filter_status' = "all" => view' = todos')
        /\ (op'.name = "filtered_todos" =>
                UNCHANGED << todos, new_todo, filter_status >>)
      ]_vars

\* the active view was just read and shows only the second of two tasks
C7_Witness ==
    /\ op.name = "filtered_todos"
    /\ filter_status = "active"
    /\ Len(todos) = 2
    /\ todos[1].completed
    /\ view = << todos[2] >>

\* ------------------------------------------------------------- C8
\* C8: clear_completed keeps exactly the tasks that are not completed, in
\* their order; a clear_completed right after a clear_completed changes
\* nothing.
C8_ClearCompletedIsIdempotent ==
    [][ (op'.name = "clear_completed") =>
            /\ todos' = SelectSeq(todos, IsActive)
            /\ UNCHANGED << new_todo, filter_status >>
            /\ (op'.again =>
                    UNCHANGED << todos, new_todo, filter_status, view >>)
      ]_vars

\* two completed tasks were just cleared at once
C8_Witness ==
    /\ op.name = "clear_completed"
    /\ Len(pre) = 2
    /\ pre[1].completed
    /\ pre[2].completed
    /\ todos = <<>>

C10_RowActsOnTheTaskItShows ==
    [][ op'.row =>
            /\ ~ op'.raised
            /\ op'.arg + 1 = RowPosition(todos, filter_status, op'.arg + 1)
      ]_vars

=============================================================================
